---- MODULE Spec2Model ----
(***************************************************************************)
(* Model of cookie_eater/base.py: the CookieManager accessor over a        *)
(* SQLite cookie database.                                                 *)
(*                                                                         *)
(* Strings are sequences of one-character strings so that lower() and the  *)
(* "in" substring test are computed, not assumed.  A cookie value is       *)
(* either text or bytes (the value column may hold a BLOB).                *)
(*                                                                         *)
(* Every public method is one action.  The method's effects are recorded   *)
(* in `call`: the exception that reached the caller, the ordered trace of  *)
(* steps it took (connect, subclass primitives, commit, close), the        *)
(* returned value and the committed table before the call.                 *)
(***************************************************************************)
EXTENDS Integers, Sequences, FiniteSets, TLC

VARIABLES
    phase,       \* "uninit" | "verified" | "failed" : state of the accessor
    fileExists,  \* whether the database file exists on disk
    liveTables,  \* table names of the live database, in sqlite_master order
    liveCols,    \* column names of the live cookie table
    table,       \* committed rows of the cookie table, in rowid order
    call,        \* record of the last method call
    tcache,      \* values _current_time has returned (cache of `unique`)
    tpc,         \* "idle" | "running" : a call of _current_time in progress
    tries,       \* attempts made by the call of _current_time
    tresult,     \* what the last call of _current_time gave its caller
    thistory     \* the values returned by _current_time, in order

dbvars == <<phase, fileExists, liveTables, liveCols, table, call>>

tvars == <<tcache, tpc, tries, tresult, thistory>>

vars == <<dbvars, tvars>>

----------------------------------------------------------------------------
(* Bounds *)

MaxRows == 2

\* sqlite gives a new row the largest rowid in use plus one; the model
\* stops inserting when that would pass MaxRowid
MaxRowid == MaxRows

\* attempts `unique` makes before it gives up
MaxRetries == 3

\* calls of _current_time that return a value
MaxCalls == 3

----------------------------------------------------------------------------
(* Strings *)

LowerChar(c) ==
    CASE c = "A" -> "a"
      [] c = "B" -> "b"
      [] c = "N" -> "n"
      [] c = "V" -> "v"
      [] OTHER -> c

\* str.lower()
Lower(s) == [i \in DOMAIN s |-> LowerChar(s[i])]

\* Python's `needle in hay` for two str
Contains(needle, hay) ==
    \E i \in 0..(Len(hay) - Len(needle)) :
        SubSeq(hay, i + 1, i + Len(needle)) = needle

TextVal(s) == [kind |-> "text", s |-> s]

BytesVal(s) == [kind |-> "bytes", s |-> s]

Empty == <<>>

\* hosts, names and values a caller stores
Hosts == {<<"a">>, <<"b", "A">>}

Names == {<<"n">>, <<"N", "x">>}

Values == {TextVal(<<"v">>), BytesVal(<<"v">>)}

\* add_cookie stores the host it is given, "" included
EmptyHostCookie ==
    [host |-> Empty, name |-> <<"n">>, value |-> TextVal(<<"v">>)]

\* the cookies a caller stores: one per host and name, one of them with a
\* value that is bytes, and one with an empty host
Cookies ==
    {c \in [host : Hosts, name : Names, value : Values] :
        c.value.kind = "bytes" <=> (c.host = <<"b", "A">> /\ c.name = <<"N", "x">>)}
        \cup {EmptyHostCookie}

\* filters a caller searches with ("" is the default of every filter)
HostFilters == {Empty} \cup Hosts

NameFilters == {Empty, <<"N", "x">>}

ValueFilters == {Empty, <<"V">>}

----------------------------------------------------------------------------
(* Schema descriptor of the browser variant and the platform table *)

table_name == "cookies"

ValidTables == <<"meta", "cookies">>

ValidColumns == <<"host", "name", "value">>

LiveTableChoices ==
    { ValidTables,
      <<"cookies">>,                    \* required table "meta" missing
      <<"meta">>,                       \* the cookie table itself missing
      <<"cookies", "meta">>,            \* same tables, other order
      <<"meta", "cookies", "extra">> }  \* one table too many

LiveColChoices ==
    { ValidColumns,
      <<"host", "name">>,               \* required column missing
      <<"host", "value", "name">>,      \* same columns, other order
      <<"host", "name", "value", "extra">> }

Platforms == {"linux", "linux2", "darwin", "win32", "cygwin", "freebsd12"}

\* keys of CookieManager._db_paths
DbPathKeys == {"window", "mac", "linux"}

Range(s) == {s[i] : i \in DOMAIN s}

----------------------------------------------------------------------------
(* Outcome of a method: what the caller and the database see *)

Outcome(exc, steps, ret, tbl) ==
    [exc |-> exc, steps |-> steps, ret |-> ret, tbl |-> tbl]

\* sys.platform -> platform id, or the error raised
get_platform(p) ==
    IF p \in {"linux", "linux2"} THEN [exc |-> "None", id |-> "linux"]
    ELSE IF p = "darwin" THEN [exc |-> "None", id |-> "mac"]
    ELSE IF p \in {"win32", "cygwin"} THEN [exc |-> "None", id |-> "windows"]
    ELSE [exc |-> "BrowserException", id |-> ""]

\* find_db that returns the default path without looking for the file
find_db_unchecked(p, exists) ==
    LET plat == get_platform(p) IN
    IF plat.exc # "None" THEN plat.exc
    ELSE IF plat.id \notin DbPathKeys THEN "KeyError"
    ELSE "None"

\* find_db: the error it raises, "None" when it returns the default path
find_db(p, exists) ==
    LET plat == get_platform(p) IN
    IF plat.exc # "None" THEN plat.exc
    ELSE IF plat.id \notin DbPathKeys THEN "KeyError"
    ELSE IF ~exists THEN "MissingCookiesDB"
    ELSE "None"

\* _correct_tables_and_titles: the error it raises on the live schema.
\* The column probe "SELECT * FROM <table_name> LIMIT 1" is executed before
\* either comparison, and fails in sqlite when the table does not exist.
_correct_tables_and_titles(tables, cols) ==
    IF table_name \notin Range(tables) THEN "OperationalError"
    ELSE IF tables # ValidTables THEN "InvalidSchema"
    ELSE IF cols # ValidColumns THEN "InvalidSchema"
    ELSE "None"

\* verify_schema: connect, check, close in a finally clause.
\* A file that does not exist is opened as a database without tables.
verify_schema(exists, tables, cols) ==
    LET seen == IF exists THEN tables ELSE <<>> IN
    Outcome(_correct_tables_and_titles(seen, cols),
            <<"connect", "_correct_tables_and_titles", "close">>,
            <<>>, <<>>)

\* __init__(db): db is "" (None) or an explicit path
init(explicit, p, exists, tables, cols) ==
    LET found == IF explicit THEN "None" ELSE find_db(p, exists) IN
    IF found # "None"
    THEN Outcome(found, <<"find_db">>, <<>>, <<>>)
    ELSE LET v == verify_schema(exists, tables, cols) IN
         Outcome(v.exc,
                 (IF explicit THEN <<>> ELSE <<"find_db">>) \o v.steps,
                 <<>>, <<>>)

----------------------------------------------------------------------------
(* Subclass primitives, acting on the rows the open transaction sees *)

Row(id, host, name, value) ==
    [rowid |-> id, host |-> host, name |-> name, value |-> value]

RECURSIVE MaxRowidOf(_)
MaxRowidOf(t) ==
    IF t = <<>> THEN 0
    ELSE LET m == MaxRowidOf(Tail(t)) IN
         IF Head(t).rowid > m THEN Head(t).rowid ELSE m

NextRowid(t) == MaxRowidOf(t) + 1

HasRow(t, host, name) ==
    \E i \in DOMAIN t : t[i].host = host /\ t[i].name = name

\* insert statement: one new row, or an error
_insert_command(t, host, name, value, ok) ==
    IF ~ok THEN [ok |-> FALSE, t |-> t]
    ELSE [ok |-> TRUE,
          t |-> Append(t, Row(NextRowid(t), host, name, value))]

\* delete statement: exact match on host and name; it fails when there is
\* no cookie to remove, or for another reason (ok = FALSE, e.g. a lock)
_delete_command(t, host, name, ok) ==
    LET keep(r) == ~(r.host = host /\ r.name = name) IN
    IF ~ok \/ ~HasRow(t, host, name) THEN [ok |-> FALSE, t |-> t]
    ELSE [ok |-> TRUE, t |-> SelectSeq(t, keep)]

\* candidate select: (rowid, host, name, value) of the rows
_limited_select_command(t, ok) ==
    IF ~ok THEN [ok |-> FALSE, rows |-> <<>>]
    ELSE [ok |-> TRUE, rows |-> t]

\* select by a column: _match_command(cur, "rowid", id)
_match_command(t, id, ok) ==
    LET hit(r) == r.rowid = id IN
    IF ~ok THEN [ok |-> FALSE, rows |-> <<>>]
    ELSE [ok |-> TRUE, rows |-> SelectSeq(t, hit)]

\* _match_command(cur, 1, 1): every row
_match_all(t, ok) ==
    IF ~ok THEN [ok |-> FALSE, rows |-> <<>>]
    ELSE [ok |-> TRUE, rows |-> t]

\* row converter: the record holds host, name and value of the row
_row_to_dict(r, ok) ==
    IF ~ok THEN [ok |-> FALSE, rec |-> <<>>]
    ELSE [ok |-> TRUE,
          rec |-> [host |-> r.host, name |-> r.name, value |-> r.value]]

----------------------------------------------------------------------------
(* add_cookie, delete_cookie *)

\* add_cookie on a connection that keeps the insert when the commit fails
add_cookie_autocommit(t, host, name, value, insOk, commitOk) ==
    LET ins == _insert_command(t, host, name, value, insOk) IN
    IF ~ins.ok
    THEN Outcome("BrowserException",
                 <<"connect", "_insert_command", "close">>, <<>>, t)
    ELSE Outcome(IF commitOk THEN "None" ELSE "BrowserException",
                 <<"connect", "_insert_command", "commit", "close">>,
                 <<>>, ins.t)

add_cookie(t, host, name, value, insOk, commitOk) ==
    LET ins == _insert_command(t, host, name, value, insOk) IN
    IF ~ins.ok
    THEN Outcome("BrowserException",
                 <<"connect", "_insert_command", "close">>, <<>>, t)
    ELSE IF ~commitOk
    THEN Outcome("BrowserException",
                 <<"connect", "_insert_command", "commit", "close">>,
                 <<>>, t)
    ELSE Outcome("None",
                 <<"connect", "_insert_command", "commit", "close">>,
                 <<>>, ins.t)

\* delete_cookie that closes the connection without committing
delete_cookie_uncommitted(t, host, name, delOk, commitOk) ==
    LET del == _delete_command(t, host, name, delOk) IN
    IF ~del.ok
    THEN Outcome("BrowserException",
                 <<"connect", "_delete_command", "close">>, <<>>, t)
    ELSE Outcome("None", <<"connect", "_delete_command", "close">>, <<>>, t)

delete_cookie(t, host, name, delOk, commitOk) ==
    LET del == _delete_command(t, host, name, delOk) IN
    IF ~del.ok
    THEN Outcome("BrowserException",
                 <<"connect", "_delete_command", "close">>, <<>>, t)
    ELSE IF ~commitOk
    THEN Outcome("BrowserException",
                 <<"connect", "_delete_command", "commit", "close">>,
                 <<>>, t)
    ELSE Outcome("None",
                 <<"connect", "_delete_command", "commit", "close">>,
                 <<>>, del.t)

----------------------------------------------------------------------------
(* update_cookie: delete then insert on one connection *)

\* update_cookie that tries the delete a second time after a swallowed
\* failure
update_cookie_retry(t, host, name, value, ignore_missing, delOk, insOk, commitOk) ==
    LET del == _delete_command(t, host, name, delOk) IN
    IF ~del.ok /\ ~ignore_missing
    THEN Outcome("BrowserException",
                 <<"connect", "_delete_command">>, <<>>, t)
    ELSE LET again == IF del.ok THEN del
                      ELSE _delete_command(t, host, name, TRUE)
             ins == _insert_command(again.t, host, name, value, insOk)
             steps == IF del.ok
                      THEN <<"connect", "_delete_command", "_insert_command">>
                      ELSE <<"connect", "_delete_command", "_delete_command",
                             "_insert_command">>
         IN  IF ~ins.ok
             THEN Outcome("BrowserException", steps \o <<"close">>, <<>>, t)
             ELSE IF ~commitOk
             THEN Outcome("BrowserException",
                          steps \o <<"commit", "close">>, <<>>, t)
             ELSE Outcome("None", steps \o <<"commit", "close">>,
                          <<>>, ins.t)

\* update_cookie on a connection that keeps the delete when the insert or
\* the commit fails
update_cookie_delete_kept(t, host, name, value, ignore_missing, delOk, insOk, commitOk) ==
    LET del == _delete_command(t, host, name, delOk) IN
    IF ~del.ok /\ ~ignore_missing
    THEN Outcome("BrowserException",
                 <<"connect", "_delete_command">>, <<>>, t)
    ELSE LET ins == _insert_command(del.t, host, name, value, insOk) IN
         IF ~ins.ok
         THEN Outcome("BrowserException",
                      <<"connect", "_delete_command", "_insert_command",
                        "close">>, <<>>, del.t)
         ELSE IF ~commitOk
         THEN Outcome("BrowserException",
                      <<"connect", "_delete_command", "_insert_command",
                        "commit", "close">>, <<>>, del.t)
         ELSE Outcome("None",
                      <<"connect", "_delete_command", "_insert_command",
                        "commit", "close">>, <<>>, ins.t)

\* update_cookie with the test of ignore_missing inverted
update_cookie_inverted(t, host, name, value, ignore_missing, delOk, insOk, commitOk) ==
    LET del == _delete_command(t, host, name, delOk) IN
    IF ~del.ok /\ ignore_missing
    THEN Outcome("BrowserException",
                 <<"connect", "_delete_command">>, <<>>, t)
    ELSE LET ins == _insert_command(del.t, host, name, value, insOk) IN
         IF ~ins.ok
         THEN Outcome("BrowserException",
                      <<"connect", "_delete_command", "_insert_command",
                        "close">>, <<>>, t)
         ELSE IF ~commitOk
         THEN Outcome("BrowserException",
                      <<"connect", "_delete_command", "_insert_command",
                        "commit", "close">>, <<>>, t)
         ELSE Outcome("None",
                      <<"connect", "_delete_command", "_insert_command",
                        "commit", "close">>, <<>>, ins.t)

\* The first try statement has no finally clause: when the delete step
\* fails and ignore_missing is False the error leaves the method without
\* passing conn.close().
update_cookie(t, host, name, value, ignore_missing, delOk, insOk, commitOk) ==
    LET del == _delete_command(t, host, name, delOk) IN
    IF ~del.ok /\ ~ignore_missing
    THEN Outcome("BrowserException",
                 <<"connect", "_delete_command">>, <<>>, t)
    ELSE LET ins == _insert_command(del.t, host, name, value, insOk) IN
         IF ~ins.ok
         THEN Outcome("BrowserException",
                      <<"connect", "_delete_command", "_insert_command",
                        "close">>, <<>>, t)
         ELSE IF ~commitOk
         THEN Outcome("BrowserException",
                      <<"connect", "_delete_command", "_insert_command",
                        "commit", "close">>, <<>>, t)
         ELSE Outcome("None",
                      <<"connect", "_delete_command", "_insert_command",
                        "commit", "close">>, <<>>, ins.t)

----------------------------------------------------------------------------
(* find_cookies *)

\* `value.lower() in row[3].lower()` raises when the stored value is not
\* text; host and name columns are text
CompareRaises(r, value) ==
    value # Empty /\ r.value.kind # "text"

\* RowMatches that requires every supplied filter to match
RowMatches_all(r, host, name, value) ==
    /\ host # Empty \/ name # Empty \/ value # Empty
    /\ host # Empty => Contains(Lower(host), Lower(r.host))
    /\ name # Empty => Contains(Lower(name), Lower(r.name))
    /\ value # Empty => Contains(Lower(value), Lower(r.value.s))

\* RowMatches that lower-cases the filter but not the stored field
RowMatches_field_case(r, host, name, value) ==
    \/ host # Empty /\ Contains(Lower(host), r.host)
    \/ name # Empty /\ Contains(Lower(name), r.name)
    \/ value # Empty /\ Contains(Lower(value), r.value.s)

RowMatches(r, host, name, value) ==
    \/ host # Empty /\ Contains(Lower(host), Lower(r.host))
    \/ name # Empty /\ Contains(Lower(name), Lower(r.name))
    \/ value # Empty /\ Contains(Lower(value), Lower(r.value.s))

\* the first loop with the append inside each of the three tests
RECURSIVE Scan_per_filter(_, _, _, _, _)
Scan_per_filter(rows, host, name, value, ids) ==
    IF rows = <<>> THEN [ok |-> TRUE, ids |-> ids]
    ELSE LET r == Head(rows)
             one == <<r.rowid>>
             byHost == IF RowMatches(r, host, Empty, Empty)
                       THEN one ELSE <<>>
             byName == IF RowMatches(r, Empty, name, Empty)
                       THEN one ELSE <<>>
             byValue == IF RowMatches(r, Empty, Empty, value)
                        THEN one ELSE <<>>
         IN  IF CompareRaises(r, value) THEN [ok |-> FALSE, ids |-> ids]
             ELSE Scan_per_filter(Tail(rows), host, name, value,
                                  ids \o byHost \o byName \o byValue)

\* first loop: collect the rowids of the matching candidate rows
RECURSIVE Scan(_, _, _, _, _)
Scan(rows, host, name, value, ids) ==
    IF rows = <<>> THEN [ok |-> TRUE, ids |-> ids]
    ELSE LET r == Head(rows) IN
         IF CompareRaises(r, value) THEN [ok |-> FALSE, ids |-> ids]
         ELSE Scan(Tail(rows), host, name, value,
                   IF RowMatches(r, host, name, value)
                   THEN Append(ids, r.rowid) ELSE ids)

\* second loop: re-fetch every collected rowid and convert the row.
\* f, k: the k-th re-fetch (f = "match") or conversion (f = "convert") fails
RECURSIVE Fetch(_, _, _, _, _, _, _)
Fetch(t, ids, j, f, k, steps, results) ==
    IF j > Len(ids)
    THEN Outcome("None", steps \o <<"close">>, results, t)
    ELSE LET m == _match_command(t, ids[j], ~(f = "match" /\ k = j)) IN
         IF ~m.ok
         THEN Outcome("BrowserException",
                      steps \o <<"_match_command", "close">>, <<>>, t)
         ELSE LET d == _row_to_dict(Head(m.rows),
                                    ~(f = "convert" /\ k = j)) IN
              IF ~d.ok
              THEN Outcome("PrimitiveError",
                           steps \o <<"_match_command", "_row_to_dict">>,
                           <<>>, t)
              ELSE Fetch(t, ids, j + 1, f, k,
                         steps \o <<"_match_command", "_row_to_dict">>,
                         Append(results, d.rec))

\* find_cookies without the test for an empty query
find_cookies_unguarded(t, host, name, value, f, k) ==
    LET sel == _limited_select_command(t, f # "select") IN
    IF ~sel.ok
    THEN Outcome("BrowserException",
                 <<"connect", "_limited_select_command", "close">>,
                 <<>>, t)
    ELSE LET sc == Scan(sel.rows, host, name, value, <<>>) IN
         IF ~sc.ok
         THEN Outcome("TypeError",
                      <<"connect", "_limited_select_command">>, <<>>, t)
         ELSE Fetch(t, sc.ids, 1, f, k,
                    <<"connect", "_limited_select_command">>, <<>>)

find_cookies(t, host, name, value, f, k) ==
    IF host = Empty /\ name = Empty /\ value = Empty
    THEN Outcome("BrowserException", <<>>, <<>>, t)
    ELSE LET sel == _limited_select_command(t, f # "select") IN
         IF ~sel.ok
         THEN Outcome("BrowserException",
                      <<"connect", "_limited_select_command", "close">>,
                      <<>>, t)
         ELSE LET sc == Scan(sel.rows, host, name, value, <<>>) IN
              IF ~sc.ok
              THEN Outcome("TypeError",
                           <<"connect", "_limited_select_command">>,
                           <<>>, t)
              ELSE Fetch(t, sc.ids, 1, f, k,
                         <<"connect", "_limited_select_command">>, <<>>)

----------------------------------------------------------------------------
(* dump *)

\* the list comprehension of the else clause; the finally clause closes
RECURSIVE ConvertAll(_, _, _, _, _, _)
ConvertAll(t, rows, j, k, steps, results) ==
    IF j > Len(rows)
    THEN Outcome("None", steps \o <<"close">>, results, t)
    ELSE LET d == _row_to_dict(rows[j], k # j) IN
         IF ~d.ok
         THEN Outcome("PrimitiveError",
                      steps \o <<"_row_to_dict", "close">>, <<>>, t)
         ELSE ConvertAll(t, rows, j + 1, k, steps \o <<"_row_to_dict">>,
                         Append(results, d.rec))

\* dump whose close is not in a finally clause
dump_unscoped(t, f, k) ==
    LET m == _match_all(t, f # "match") IN
    IF ~m.ok
    THEN Outcome("BrowserException",
                 <<"connect", "_match_command">>, <<>>, t)
    ELSE ConvertAll(t, m.rows, 1, IF f = "convert" THEN k ELSE 0,
                    <<"connect", "_match_command">>, <<>>)

\* dump that commits before it closes
dump_committing(t, f, k) ==
    LET m == _match_all(t, f # "match") IN
    IF ~m.ok
    THEN Outcome("BrowserException",
                 <<"connect", "_match_command", "close">>, <<>>, t)
    ELSE ConvertAll(t, m.rows, 1, IF f = "convert" THEN k ELSE 0,
                    <<"connect", "_match_command", "commit">>, <<>>)

\* dump that converts the rows after the first only
dump_skip_first(t, f, k) ==
    LET m == _match_all(t, f # "match") IN
    IF ~m.ok
    THEN Outcome("BrowserException",
                 <<"connect", "_match_command", "close">>, <<>>, t)
    ELSE ConvertAll(t, IF m.rows = <<>> THEN <<>> ELSE Tail(m.rows), 1,
                    IF f = "convert" THEN k ELSE 0,
                    <<"connect", "_match_command">>, <<>>)

dump(t, f, k) ==
    LET m == _match_all(t, f # "match") IN
    IF ~m.ok
    THEN Outcome("BrowserException",
                 <<"connect", "_match_command", "close">>, <<>>, t)
    ELSE ConvertAll(t, m.rows, 1, IF f = "convert" THEN k ELSE 0,
                    <<"connect", "_match_command">>, <<>>)

----------------------------------------------------------------------------
(* State machine *)

\* the arguments of a call and the fault the environment injects into it
Args(host, name, value, flag, platform, fault) ==
    [host |-> host, name |-> name, value |-> value, flag |-> flag,
     platform |-> platform, fault |-> fault]

NoValue == TextVal(Empty)

NoFault == [f |-> "none", k |-> 0]

Fault(f) == [f |-> f, k |-> 0]

NoArgs == Args(Empty, Empty, NoValue, FALSE, "", NoFault)

Call(op, a, pre, o) ==
    [op |-> op, host |-> a.host, name |-> a.name, value |-> a.value,
     flag |-> a.flag, platform |-> a.platform, fault |-> a.fault,
     pre |-> pre, exc |-> o.exc, steps |-> o.steps, ret |-> o.ret]

\* the bound on the table the model explores
Bounded(t) == Len(t) <= MaxRows /\ MaxRowidOf(t) <= MaxRowid

\* the primitive that fails during a search or a dump, and at which of
\* its invocations: at most one primitive fails per call
Faults(t) ==
    {NoFault, Fault("select")}
        \cup [f : {"match", "convert"}, k : 1..Len(t)]

----------------------------------------------------------------------------
(* _current_time under the `unique` wrapper *)

\* default of the parameter `length` of _current_time
TimeLength == 16

\* a reading of utcnow() - epoch in seconds, as str() prints the float:
\* the digits before and after the point
Reading(secs, frac) == [secs |-> secs, frac |-> frac]

Secs0 == <<"1", "5", "0", "0", "0", "0", "0", "0", "0", "0">>

Secs1 == <<"1", "5", "0", "0", "0", "0", "0", "0", "0", "1">>

\* the wall clock is not monotonic: any reading may follow any other
Readings ==
    { Reading(Secs0, <<"0">>),
      Reading(Secs0, <<"5">>),
      Reading(Secs0, <<"1", "2", "3", "4", "5", "6">>),
      Reading(Secs0, <<"1", "2", "3", "4", "5", "6", "7">>),
      Reading(Secs1, <<"0">>) }

\* str.ljust(n, "0")
Ljust(s, n) ==
    IF Len(s) >= n THEN s ELSE s \o [i \in 1..(n - Len(s)) |-> "0"]

\* s[:n]
Prefix(s, n) == IF Len(s) <= n THEN s ELSE SubSeq(s, 1, n)

\* int(str(secs).replace(".", "")[:length].ljust(length, "0")), as digits
_current_time(now) ==
    LET NotPoint(c) == c # "."
        text == now.secs \o <<".">> \o now.frac
    IN  Ljust(Prefix(SelectSeq(text, NotPoint), TimeLength), TimeLength)

NoResult == [kind |-> "none", v |-> <<>>]

\* the wrapper accepts every value, seen before or not
IsUnseen_always(v, cache) == TRUE

\* the test `value not in unique_cache`
IsUnseen(v, cache) == v \notin cache

TimeInit ==
    /\ tcache = {}
    /\ tpc = "idle"
    /\ tries = 0
    /\ tresult = NoResult
    /\ thistory = <<>>

\* the caller invokes _current_time
CallCurrentTime ==
    /\ tpc = "idle"
    /\ Len(thistory) < MaxCalls
    /\ tpc' = "running"
    /\ tries' = 0
    /\ tresult' = NoResult
    /\ UNCHANGED <<tcache, thistory>>
    /\ UNCHANGED dbvars

\* one pass of the retry loop: compute the value, return it when it has not
\* been returned before, otherwise sleep `wait` seconds and go round again
Attempt ==
    /\ tpc = "running"
    /\ tries < MaxRetries
    /\ \E now \in Readings :
         \E v \in {_current_time(now)} :
           IF IsUnseen(v, tcache)
           THEN /\ tcache' = tcache \cup {v}
                /\ thistory' = Append(thistory, v)
                /\ tresult' = [kind |-> "value", v |-> v]
                /\ tpc' = "idle"
                /\ tries' = tries + 1
           ELSE /\ tries' = tries + 1
                /\ UNCHANGED <<tcache, thistory, tresult, tpc>>
    /\ UNCHANGED dbvars

\* the loop ran out: raise BrowserException("Could not generate unique
\* timestamp")
GiveUp ==
    /\ tpc = "running"
    /\ tries = MaxRetries
    /\ tresult' = [kind |-> "error", v |-> <<>>]
    /\ tpc' = "idle"
    /\ UNCHANGED <<tcache, thistory, tries>>
    /\ UNCHANGED dbvars

Init ==
    /\ phase = "uninit"
    /\ fileExists \in BOOLEAN
    /\ liveTables \in LiveTableChoices
    /\ liveCols \in LiveColChoices
    /\ table = <<>>
    /\ call = Call("none", NoArgs, <<>>, Outcome("None", <<>>, <<>>, <<>>))
    /\ TimeInit

\* CookieManager(db): flag records whether an explicit path was given
Construct ==
    /\ phase = "uninit"
    /\ \E explicit \in BOOLEAN, p \in Platforms :
         \E o \in {init(explicit, p, fileExists, liveTables, liveCols)} :
           /\ call' = Call("init",
                           Args(Empty, Empty, NoValue, explicit, p, NoFault),
                           table, o)
           /\ phase' = IF o.exc = "None" THEN "verified" ELSE "failed"
    /\ UNCHANGED <<fileExists, liveTables, liveCols, table>>
    /\ UNCHANGED tvars

AddCookie ==
    /\ phase = "verified"
    /\ \E c \in Cookies, fault \in {"none", "insert", "commit"} :
         \E o \in {add_cookie(table, c.host, c.name, c.value,
                              fault # "insert", fault # "commit")} :
           /\ Bounded(o.tbl)
           /\ call' = Call("add",
                           Args(c.host, c.name, c.value, FALSE, "",
                                Fault(fault)),
                           table, o)
           /\ table' = o.tbl
    /\ UNCHANGED <<phase, fileExists, liveTables, liveCols>>
    /\ UNCHANGED tvars

DeleteCookie ==
    /\ phase = "verified"
    /\ \E c \in Cookies, fault \in {"none", "delete", "commit"} :
         \E o \in {delete_cookie(table, c.host, c.name,
                                 fault # "delete", fault # "commit")} :
           /\ call' = Call("delete",
                           Args(c.host, c.name, NoValue, FALSE, "",
                                Fault(fault)),
                           table, o)
           /\ table' = o.tbl
    /\ UNCHANGED <<phase, fileExists, liveTables, liveCols>>
    /\ UNCHANGED tvars

\* flag records ignore_missing
UpdateCookie ==
    /\ phase = "verified"
    /\ \E c \in Cookies, ignore_missing \in BOOLEAN,
          fault \in {"none", "delete", "insert", "commit"} :
         \E o \in {update_cookie(table, c.host, c.name, c.value,
                                 ignore_missing, fault # "delete",
                                 fault # "insert", fault # "commit")} :
           /\ Bounded(o.tbl)
           /\ call' = Call("update",
                           Args(c.host, c.name, c.value, ignore_missing, "",
                                Fault(fault)),
                           table, o)
           /\ table' = o.tbl
    /\ UNCHANGED <<phase, fileExists, liveTables, liveCols>>
    /\ UNCHANGED tvars

FindCookies ==
    /\ phase = "verified"
    /\ \E host \in HostFilters, name \in NameFilters, value \in ValueFilters,
          x \in Faults(table) :
         \E o \in {find_cookies(table, host, name, value, x.f, x.k)} :
           /\ call' = Call("find",
                           Args(host, name, TextVal(value), FALSE, "", x),
                           table, o)
           /\ table' = o.tbl
    /\ UNCHANGED <<phase, fileExists, liveTables, liveCols>>
    /\ UNCHANGED tvars

Dump ==
    /\ phase = "verified"
    /\ \E x \in (Faults(table) \ {Fault("select")}) \cup {Fault("match")} :
         \E o \in {dump(table, x.f, x.k)} :
           /\ call' = Call("dump",
                           Args(Empty, Empty, NoValue, FALSE, "", x),
                           table, o)
           /\ table' = o.tbl
    /\ UNCHANGED <<phase, fileExists, liveTables, liveCols>>
    /\ UNCHANGED tvars

Next ==
    \/ Construct
    \/ AddCookie
    \/ DeleteCookie
    \/ UpdateCookie
    \/ FindCookies
    \/ Dump

Spec == Init /\ [][Next]_vars

\* the timestamp generator alone, on an accessor that is left untouched
TimeStart ==
    /\ phase = "uninit"
    /\ fileExists = TRUE
    /\ liveTables = ValidTables
    /\ liveCols = ValidColumns
    /\ table = <<>>
    /\ call = Call("none", NoArgs, <<>>, Outcome("None", <<>>, <<>>, <<>>))
    /\ TimeInit

TimeNext ==
    \/ CallCurrentTime
    \/ Attempt
    \/ GiveUp

\* the retry loop is sequential code: once entered it keeps running
SpecTime ==
    /\ TimeStart
    /\ [][TimeNext]_vars
    /\ WF_vars(Attempt)
    /\ WF_vars(GiveUp)

----------------------------------------------------------------------------
(* Reading the trace of a call *)

Opened(c) == "connect" \in Range(c.steps)

Closed(c) == "close" \in Range(c.steps)

\* the connection the call opened is still open when the call is over
Leaked(c) == Opened(c) /\ ~Closed(c)

----------------------------------------------------------------------------
(* Connection scoping *)

\* C1: when add_cookie, delete_cookie, dump or verify_schema (run by the
\* constructor) is over, by return or by any error, the connection the
\* call opened has been closed.
C1_ScopedConnection ==
    (call.op \in {"add", "delete", "dump", "init"} /\ Opened(call))
        => Closed(call)

\* dump whose row converter failed, and add_cookie whose commit failed
C1_Witness ==
    \/ /\ call.op = "dump"
       /\ call.exc = "PrimitiveError"
       /\ Opened(call) /\ Closed(call)
    \/ /\ call.op = "add"
       /\ call.fault.f = "commit"
       /\ Opened(call) /\ Closed(call)

\* C2: when update_cookie is over, by return or by any error, the
\* connection it opened has been closed.
C2_UpdateClosesConnection ==
    (call.op = "update" /\ Opened(call)) => Closed(call)

\* C3: when find_cookies is over, by return or by any error, the
\* connection it opened has been closed.
C3_FindClosesConnection ==
    (call.op = "find" /\ Opened(call)) => Closed(call)

----------------------------------------------------------------------------
(* Construction *)

Missing(live, expected) == Range(expected) \ Range(live) # {}

\* construction that reached schema verification of an existing database
Verifying == call.op = "init" /\ Opened(call) /\ fileExists

\* C4: construction succeeds on a database whose tables and columns equal
\* the expected lists, and fails with InvalidSchema on every database in
\* which an expected table or an expected column is missing.
C4_SchemaVerdict ==
    Verifying =>
        /\ (liveTables = ValidTables /\ liveCols = ValidColumns)
               => call.exc = "None"
        /\ (Missing(liveTables, ValidTables) \/ Missing(liveCols, ValidColumns))
               => call.exc = "InvalidSchema"

\* a default path was resolved, or a path was given
PathKnown(c) ==
    \/ c.flag
    \/ /\ get_platform(c.platform).exc = "None"
       /\ get_platform(c.platform).id \in DbPathKeys

\* C5 as stated: construction on a path that does not exist, given or
\* resolved, fails with MissingCookiesDB before any connection is opened.
C5_MissingAnyPath ==
    (call.op = "init" /\ PathKnown(call) /\ ~fileExists)
        => (call.exc = "MissingCookiesDB" /\ ~Opened(call))

\* C5: construction without an explicit path, on a platform for which a
\* default path is resolved, fails with MissingCookiesDB before any
\* connection is opened when that path does not exist; an explicit path is
\* not looked for: construction goes on to schema verification, which opens
\* a connection, and does not raise MissingCookiesDB.
C5_MissingDefaultPath ==
    (call.op = "init" /\ PathKnown(call) /\ ~fileExists)
        => IF call.flag
           THEN call.exc # "MissingCookiesDB" /\ Opened(call)
           ELSE call.exc = "MissingCookiesDB" /\ ~Opened(call)

C5_Witness ==
    /\ call.op = "init"
    /\ ~call.flag
    /\ ~fileExists
    /\ call.exc = "MissingCookiesDB"

----------------------------------------------------------------------------
(* update_cookie on a cookie that is not stored *)

UpdateOfMissing(ignore_missing) ==
    /\ call.op = "update"
    /\ call.flag = ignore_missing
    /\ ~HasRow(call.pre, call.host, call.name)

\* C6: update_cookie with ignore_missing False on a (host, name) without a
\* row fails with BrowserException and leaves the table as it was.
C6_UpdateMissingRaises ==
    UpdateOfMissing(FALSE)
        => (call.exc = "BrowserException" /\ table = call.pre)

\* such an update, on a table that holds another cookie
C6_Witness ==
    /\ UpdateOfMissing(FALSE)
    /\ call.pre # <<>>
    /\ call.fault.f = "none"
    /\ call.exc = "BrowserException"

\* C7: update_cookie with ignore_missing True on a (host, name) without a
\* row ends as add_cookie with the same arguments ends: same error or none,
\* same table; when neither the insert nor the commit fails there is no
\* error and the table is the table before plus the one new row.
C7_UpdateMissingIsAdd ==
    UpdateOfMissing(TRUE) =>
        LET a == add_cookie(call.pre, call.host, call.name, call.value,
                            call.fault.f # "insert",
                            call.fault.f # "commit")
        IN  /\ call.exc = a.exc
            /\ table = a.tbl
            /\ ~Leaked(call)
            /\ call.fault.f \in {"none", "delete"} =>
                 /\ call.exc = "None"
                 /\ table = Append(call.pre,
                                   Row(NextRowid(call.pre), call.host,
                                       call.name, call.value))

C7_Witness ==
    /\ UpdateOfMissing(TRUE)
    /\ call.pre # <<>>
    /\ call.exc = "None"
    /\ Len(table) = Len(call.pre) + 1

----------------------------------------------------------------------------
(* find_cookies *)

EmptyQuery ==
    /\ call.op = "find"
    /\ call.host = Empty /\ call.name = Empty /\ call.value = TextVal(Empty)

\* C8: find_cookies with host, name and value all empty fails with
\* BrowserException whatever the table holds, before it opens a connection
\* or invokes a subclass primitive.
C8_EmptyQueryRejected ==
    EmptyQuery => (call.exc = "BrowserException" /\ call.steps = <<>>)

C8_Witness ==
    /\ EmptyQuery
    /\ call.pre # <<>>
    /\ call.exc = "BrowserException"

Record(host, name, value) ==
    [host |-> host, name |-> name, value |-> value]

\* add_cookie(h, n, v) returned, and find_cookies(host=h) returns next
AddThenFind ==
    /\ call.op = "add" /\ call.exc = "None"
    /\ call'.op = "find" /\ call'.exc = "None"
    /\ call'.host = call.host
    /\ call'.name = Empty /\ call'.value = TextVal(Empty)

\* C9 as stated: the search after the add returns exactly one record, the
\* one of the added cookie.
C9_RoundTripExactlyOne ==
    [][AddThenFind =>
          call'.ret = <<Record(call.host, call.name, call.value)>>]_vars

\* the rows whose host contains h, compared in lower case
HostHits(t, h) ==
    {i \in DOMAIN t : Contains(Lower(h), Lower(t[i].host))}

\* C9: the search after the add returns one record for every stored row
\* whose host contains h in lower case; the added cookie's record (h, n, v)
\* is one of them, and the only one exactly when no row stored before the
\* add has a host that contains h.
C9_RoundTrip ==
    [][AddThenFind =>
          /\ Len(call'.ret) = 1 + Cardinality(HostHits(call.pre, call.host))
          /\ \E i \in DOMAIN call'.ret :
                 call'.ret[i] = Record(call.host, call.name, call.value)]_vars

\* a search by the host of the newest row that returned its record and the
\* record of an older row
C9_Witness ==
    /\ call.op = "find" /\ call.exc = "None"
    /\ call.name = Empty /\ call.value = TextVal(Empty)
    /\ Len(call.pre) = 2
    /\ call.pre[2].host = call.host
    /\ Len(call.ret) = 2
    /\ call.ret[2] = Record(call.host, call.pre[2].name, call.pre[2].value)

\* delete_cookie(h, n) returned, and find_cookies(host=h, name=n) returns
DeleteThenFind ==
    /\ call.op = "delete" /\ call.exc = "None"
    /\ call'.op = "find" /\ call'.exc = "None"
    /\ call'.host = call.host /\ call'.name = call.name
    /\ call'.value = TextVal(Empty)

\* C10 as stated: the search after the delete returns nothing.
C10_DeleteThenFindEmpty ==
    [][DeleteThenFind => call'.ret = <<>>]_vars

\* C10: the search after the delete returns no record with host h and name
\* n; it still returns the rows whose host contains h or whose name
\* contains n.
C10_DeleteThenFindNoSuchCookie ==
    [][DeleteThenFind =>
          \A i \in DOMAIN call'.ret :
              ~(call'.ret[i].host = call.host
                  /\ call'.ret[i].name = call.name)]_vars

\* a search by a host and a name that no row holds together, which
\* returned the record of another cookie
C10_Witness ==
    /\ call.op = "find" /\ call.exc = "None"
    /\ call.host # Empty /\ call.name # Empty
    /\ call.value = TextVal(Empty)
    /\ ~HasRow(call.pre, call.host, call.name)
    /\ call.ret # <<>>

----------------------------------------------------------------------------
(* Errors and effects of the data operations *)

DataOps == {"add", "delete", "update", "find", "dump"}

\* C11: a failure raised by a subclass primitive during add_cookie,
\* delete_cookie, update_cookie, find_cookies or dump reaches the caller as
\* BrowserException, never as the exception the primitive raised.
C11_PrimitiveErrorsWrapped ==
    call.op \in DataOps => call.exc # "PrimitiveError"

\* C12: when add_cookie or delete_cookie raises, the committed table is the
\* table before the call.
C12_FailedWriteHasNoEffect ==
    (call.op \in {"add", "delete"} /\ call.exc # "None")
        => table = call.pre

\* add_cookie whose commit failed, and delete_cookie of a stored cookie
\* whose commit failed
C12_Witness ==
    /\ call.op \in {"add", "delete"}
    /\ call.fault.f = "commit"
    /\ call.exc = "BrowserException"
    /\ "commit" \in Range(call.steps)
    /\ call.pre # <<>>

----------------------------------------------------------------------------
(* dump *)

DumpReturned == call.op = "dump" /\ call.exc = "None"

\* C13 as stated: dump on a table with N rows returns N records, one per
\* row, each with a non-empty host and a non-empty name equal to the values
\* stored in that row.
C13_DumpNonEmptyFields ==
    DumpReturned =>
        /\ Len(call.ret) = Len(call.pre)
        /\ \A i \in DOMAIN call.ret :
              /\ call.ret[i].host = call.pre[i].host
              /\ call.ret[i].name = call.pre[i].name
              /\ call.ret[i].host # Empty
              /\ call.ret[i].name # Empty

\* C13: dump that returns on a table with N rows returns N records, one per
\* row in table order, each with the host and the name stored in that row;
\* they are non-empty where the stored ones are.
C13_DumpEveryRow ==
    DumpReturned =>
        /\ Len(call.ret) = Len(call.pre)
        /\ \A i \in DOMAIN call.ret :
              /\ call.ret[i].host = call.pre[i].host
              /\ call.ret[i].name = call.pre[i].name

\* a dump of two rows of different hosts
C13_Witness ==
    /\ DumpReturned
    /\ Len(call.pre) = 2
    /\ Len(call.ret) = 2
    /\ call.ret[1].host # call.ret[2].host

----------------------------------------------------------------------------
(* Timestamps *)

NoDuplicates(h) ==
    \A i, j \in DOMAIN h : i # j => h[i] # h[j]

\* C14: _current_time never returns a value it returned before; a call
\* makes at most MaxRetries attempts, raises BrowserException only when all
\* of them collided, and always comes to an end, with a fresh value or
\* with that error.
C14_UniqueOrError ==
    /\ [](/\ NoDuplicates(thistory)
          /\ tries <= MaxRetries
          /\ tresult.kind = "error" => tries = MaxRetries
          /\ tresult.kind = "value" => thistory[Len(thistory)] = tresult.v)
    /\ (tpc = "running") ~> (tpc = "idle")

\* a call that gave up after a call that returned a value
C14_Witness ==
    /\ tpc = "idle"
    /\ tresult.kind = "error"
    /\ tries = MaxRetries
    /\ Len(thistory) >= 2

----------------------------------------------------------------------------
(* update_cookie: order and outcome of its steps *)

\* position of the first x in s, 0 when there is none
IndexOf(s, x) ==
    IF x \in Range(s)
    THEN CHOOSE i \in DOMAIN s : s[i] = x /\ \A j \in 1..(i - 1) : s[j] # x
    ELSE 0

Occurrences(s, x) == Cardinality({i \in DOMAIN s : s[i] = x})

Stored(t, host, name) ==
    Cardinality({i \in DOMAIN t : t[i].host = host /\ t[i].name = name})

\* the delete statement of the call failed
DeleteFailed(c) ==
    c.fault.f = "delete" \/ ~HasRow(c.pre, c.host, c.name)

\* C15: update_cookie runs the delete step first, on the connection it
\* opened, and the insert step after it; a failed delete with
\* ignore_missing True is swallowed, the insert runs and, unless the insert
\* fails, the commit; a failed delete with ignore_missing False raises at
\* once, with no insert and no commit.
C15_DeleteThenInsert ==
    call.op = "update" =>
        /\ SubSeq(call.steps, 1, 2) = <<"connect", "_delete_command">>
        /\ Occurrences(call.steps, "connect") = 1
        /\ "_insert_command" \in Range(call.steps)
              => IndexOf(call.steps, "_delete_command")
                     < IndexOf(call.steps, "_insert_command")
        /\ (DeleteFailed(call) /\ call.flag) =>
              /\ "_insert_command" \in Range(call.steps)
              /\ call.fault.f # "insert" => "commit" \in Range(call.steps)
        /\ (DeleteFailed(call) /\ ~call.flag) =>
              /\ call.exc = "BrowserException"
              /\ "_insert_command" \notin Range(call.steps)
              /\ "commit" \notin Range(call.steps)
              /\ table = call.pre

\* a delete that failed on a stored cookie, with ignore_missing False
C15_Witness ==
    /\ call.op = "update"
    /\ ~call.flag
    /\ call.fault.f = "delete"
    /\ HasRow(call.pre, call.host, call.name)
    /\ call.exc = "BrowserException"

\* update_cookie with ignore_missing True of a stored cookie, whose delete
\* statement failed while the insert and the commit did not
SwallowedDelete ==
    /\ call.op = "update"
    /\ call.flag
    /\ HasRow(call.pre, call.host, call.name)
    /\ call.fault.f = "delete"

\* C18: in that case update_cookie raises nothing, commits the insert and
\* leaves the old row and the new row for the same (host, name) in the
\* table; the delete is not tried again.
C18_SwallowedDeleteDuplicates ==
    SwallowedDelete =>
        /\ call.exc = "None"
        /\ "commit" \in Range(call.steps)
        /\ table = Append(call.pre,
                          Row(NextRowid(call.pre), call.host, call.name,
                              call.value))
        /\ Stored(table, call.host, call.name)
              = Stored(call.pre, call.host, call.name) + 1
        /\ Stored(table, call.host, call.name) >= 2
        /\ Occurrences(call.steps, "_delete_command") = 1
        /\ Occurrences(call.steps, "_insert_command") = 1

C18_Witness ==
    /\ SwallowedDelete
    /\ Stored(table, call.host, call.name) = 2
    /\ Len(table) = 2

\* update_cookie of a stored cookie whose insert or commit failed
FailedAfterDelete ==
    /\ call.op = "update"
    /\ HasRow(call.pre, call.host, call.name)
    /\ call.fault.f \in {"insert", "commit"}

\* C19: when update_cookie raises after its delete step succeeded, the
\* delete is not persisted: no commit took effect, the connection is
\* closed, and the table is the table before the call, the row for
\* (host, name) included.
C19_FailedUpdateKeepsRow ==
    FailedAfterDelete =>
        /\ call.exc = "BrowserException"
        /\ call.fault.f = "insert" => "commit" \notin Range(call.steps)
        /\ Closed(call)
        /\ table = call.pre
        /\ HasRow(table, call.host, call.name)

\* both ways: the insert failed, or the commit failed
C19_Witness ==
    /\ FailedAfterDelete
    /\ call.exc = "BrowserException"
    /\ Len(call.pre) = 2
    /\ table = call.pre

----------------------------------------------------------------------------
(* find_cookies: which rows, how many records, in which order *)

FindReturned == call.op = "find" /\ call.exc = "None"

\* a supplied filter matches a field, both in lower case
FilterHit(filter, field) ==
    filter # Empty /\ Contains(Lower(filter), Lower(field))

\* the row matches at least one supplied filter of the call
Selected(r) ==
    \/ FilterHit(call.host, r.host)
    \/ FilterHit(call.name, r.name)
    \/ FilterHit(call.value.s, r.value.s)

RecordOf(r) == Record(r.host, r.name, r.value)

\* C16: find_cookies returns the record of a row if and only if at least
\* one supplied filter matches the row; filters are combined with OR and an
\* empty filter selects nothing.
C16_SelectedIffAnyFilter ==
    FindReturned =>
        \A i \in DOMAIN call.pre :
            Selected(call.pre[i])
                <=> \E j \in DOMAIN call.ret : call.ret[j] = RecordOf(call.pre[i])

\* host and name filter both supplied: one row matches the host filter
\* only and is returned, another row matches neither and is not
C16_Witness ==
    /\ FindReturned
    /\ call.host # Empty /\ call.name # Empty
    /\ \E i \in DOMAIN call.pre :
          /\ FilterHit(call.host, call.pre[i].host)
          /\ ~FilterHit(call.name, call.pre[i].name)
          /\ \E j \in DOMAIN call.ret : call.ret[j] = RecordOf(call.pre[i])
    /\ \E i \in DOMAIN call.pre : ~Selected(call.pre[i])

\* the selected rows, in the order of the candidate scan
SelectedRows == SelectSeq(call.pre, Selected)

\* C17: find_cookies returns one record per selected row, in the order in
\* which the rows were collected; a row that matches several filters gives
\* one record.
C17_OneRecordPerSelectedRow ==
    FindReturned =>
        /\ Len(call.ret) = Len(SelectedRows)
        /\ \A j \in DOMAIN call.ret : call.ret[j] = RecordOf(SelectedRows[j])

\* two rows returned in order, the first of which matches two filters
C17_Witness ==
    /\ FindReturned
    /\ Len(call.ret) = 2
    /\ call.ret[1] # call.ret[2]
    /\ FilterHit(call.host, call.pre[1].host)
    /\ FilterHit(call.name, call.pre[1].name)

----------------------------------------------------------------------------
(* Read-only operations *)

\* C20: find_cookies and dump never commit, and the table after the call
\* is the table before it, whatever the arguments and the outcome.
C20_ReadOnly ==
    call.op \in {"find", "dump"} =>
        /\ "commit" \notin Range(call.steps)
        /\ table = call.pre

\* a search that failed in the converter, or a dump that returned rows
C20_Witness ==
    /\ call.pre # <<>>
    /\ \/ call.op = "find" /\ call.exc = "PrimitiveError"
       \/ call.op = "dump" /\ call.exc = "None" /\ call.ret # <<>>

====
